---- MODULE Spec2Model ----
(***************************************************************************)
(* A model of src/central_blockchain.py: the Block record with its        *)
(* content hash, and the CentralBlockchain ledger (genesis, proof of      *)
(* work, transaction queue, sealing, lookup and chain validation).        *)
(*                                                                         *)
(* Python lists are objects: `lists` is the heap of list objects, and a   *)
(* block's `transactions` and the ledger's `unconfirmed_transactions` are *)
(* references (indices) into it, so that aliasing is visible.             *)
(*                                                                         *)
(* sha256(...).hexdigest() is modelled as a collision-free digest: a      *)
(* record of the leading hex digits (a mixing function of the serialised  *)
(* block, `hex`) and the serialised block itself (`pre`).  Two digests    *)
(* are equal exactly when the serialised inputs are equal.                *)
(***************************************************************************)
EXTENDS Integers, Sequences, FiniteSets, TLC

\* ------------------------------------------------------------------ bounds
MaxDifficulty == 2      \* difficulties 0..MaxDifficulty are explored
MaxChain == 3           \* blocks in the chain, genesis included
MaxAdds == 3            \* payloads add_transaction accepts in one run
HexBase == 4            \* size of the digit alphabet of a digest
DigestLen == MaxDifficulty      \* hex digits of a digest that are modelled
Modulus == HexBase ^ DigestLen

\* ---------------------------------------------------------------- payloads
PStr == "pay Alice 5"
PIntKey == "{1: 'x'}"       \* the Python dict {1: "x"}
PStrKey == "{'1': 'x'}"     \* the Python dict {"1": "x"}
PZero == "0"                \* the Python int 0 (JSON number 0)
PEmptyStr == ""             \* the Python str ''
GenesisPayload == "Genesis Block"
Payloads == {PStr, PIntKey}                 \* what callers submit
StoredPayloads == Payloads \cup {PStrKey}   \* what a direct write may store
TimeStamps == {1, 2}                        \* values time.time() returns
Threads == {1, 2}                           \* request threads of the server

VARIABLES
    chain,        \* self.chain: sequence of Block records
    lists,        \* heap of list objects: lists[id] is the list's content
    pending,      \* self.unconfirmed_transactions: a reference into lists
    difficulty,   \* self.difficulty
    ret,          \* the last completed operation and what it returned
    log,          \* every payload add_transaction has acknowledged, in order
    tampered,     \* the one write made from outside the ledger's methods, if any
    thr           \* per request thread: the line it is at and its locals

vars == <<chain, lists, pending, difficulty, ret, log, tampered, thr>>

\* ------------------------------------------------------------ json.dumps
\* json.dumps of one payload: a str is quoted, a dict's keys become strings,
\* so the dicts {1: "x"} and {"1": "x"} have the same text.
Dumps(p) ==
    CASE p = PStr -> "\"pay Alice 5\""
      [] p = GenesisPayload -> "\"Genesis Block\""
      [] p = PIntKey -> "{\"1\": \"x\"}"
      [] p = PStrKey -> "{\"1\": \"x\"}"
      [] p = PZero -> "0"
      [] p = PEmptyStr -> "\"\""

\* json.dumps of a list of payloads, element by element.
DumpsList(txs) == [i \in 1..Len(txs) |-> Dumps(txs[i])]

\* ---------------------------------------------------------------- sha256
\* The bytes of a JSON text, as far as the digest's leading digits go.
JsonCode(s) ==
    CASE s = "\"pay Alice 5\"" -> 1
      [] s = "{\"1\": \"x\"}" -> 2
      [] s = "\"Genesis Block\"" -> 3
      [] s = "0" -> 4
      [] s = "\"\"" -> 5

RECURSIVE TxNum(_)
TxNum(js) ==
    IF js = <<>> THEN 0
    ELSE (7 * TxNum(SubSeq(js, 1, Len(js) - 1)) + JsonCode(js[Len(js)])) % Modulus

RECURSIVE HexNum(_)
HexNum(hex) ==
    IF hex = <<>> THEN 0
    ELSE (HexBase * HexNum(SubSeq(hex, 1, Len(hex) - 1)) + hex[Len(hex)]) % Modulus

\* The leading digits of the digest of a serialised block.
Mix(s) ==
    (5 * s.index + 3 * TxNum(s.transactions) + 11 * HexNum(s.previous_hash.hex)
       + 13 * s.timestamp + 7 * s.nonce + 1) % Modulus

HexDigits(m) == [i \in 1..DigestLen |-> (m \div (HexBase ^ (DigestLen - i))) % HexBase]

Sha256Hex(s) == [hex |-> HexDigits(Mix(s)), pre |-> <<s>>]

\* The string "0", genesis's previous_hash.
SentinelHash == [hex |-> <<0>>, pre |-> <<>>]

\* ------------------------------------------------------------------ Block
\* A digest of the block's header only, the transactions left out.
ComputeHashHeaderOnly(b, heap) ==
    LET block_dict == [index |-> b.index,
                       transactions |-> <<>>,
                       previous_hash |-> b.previous_hash,
                       timestamp |-> b.timestamp,
                       nonce |-> b.nonce]
    IN  Sha256Hex(block_dict)

\* Block.compute_hash: the digest of the block's current fields.
ComputeHash(b, heap) ==
    LET block_dict == [index |-> b.index,
                       transactions |-> DumpsList(heap[b.transactions]),
                       previous_hash |-> b.previous_hash,
                       timestamp |-> b.timestamp,
                       nonce |-> b.nonce]
    IN  Sha256Hex(block_dict)

\* Block.__init__ with timestamp=None and nonce=0; now is time.time().
NewBlock(index, transactions, previous_hash, now, heap) ==
    LET b == [index |-> index, transactions |-> transactions,
              previous_hash |-> previous_hash, timestamp |-> now,
              nonce |-> 0, hash |-> SentinelHash]
    IN  [b EXCEPT !.hash = ComputeHash(b, heap)]

\* Block.to_dict: the fields, the transactions list by reference.
ToDict(b) ==
    [index |-> b.index, transactions |-> b.transactions,
     previous_hash |-> b.previous_hash, timestamp |-> b.timestamp,
     nonce |-> b.nonce, hash |-> b.hash]

\* str.startswith('0' * d)
StartsWithZeros(hex, d) == Len(hex) >= d /\ \A i \in 1..d : hex[i] = 0

\* ---------------------------------------------------------- CentralBlockchain
LastBlock(c) == c[Len(c)]

\* The search with a prefix one character short.
RECURSIVE PowSearchShortPrefix(_, _, _, _)
PowSearchShortPrefix(b, n, d, heap) ==
    LET cur == [b EXCEPT !.nonce = n]
    IN  IF StartsWithZeros(ComputeHash(cur, heap).hex, d - 1) THEN n
        ELSE PowSearchShortPrefix(b, n + 1, d, heap)

\* The while loop of proof_of_work, entered with block.nonce = n.
RECURSIVE PowSearch(_, _, _, _)
PowSearch(b, n, d, heap) ==
    LET cur == [b EXCEPT !.nonce = n]
    IN  IF StartsWithZeros(ComputeHash(cur, heap).hex, d) THEN n
        ELSE PowSearch(b, n + 1, d, heap)

\* A search that goes on from the nonce the block came with.
PowStartFromEntry(b) == b.nonce

\* The nonce proof_of_work starts its search from: `block.nonce = 0`.
PowStartNonce(b) == 0

\* proof_of_work: the block with its nonce set, and the digest returned.
ProofOfWork(b, d, heap) ==
    LET n == PowSearch(b, PowStartNonce(b), d, heap)
        found == [b EXCEPT !.nonce = n]
    IN  [block |-> found, computed_hash |-> ComputeHash(found, heap)]

\* Sealing that keeps the constructor's provisional hash.
SealedKeepsProvisionalHash(b, d, heap) == ProofOfWork(b, d, heap).block

\* A block sealed the way create_genesis_block and mine_block do it:
\* block.hash = self.proof_of_work(block).
Sealed(b, d, heap) ==
    LET p == ProofOfWork(b, d, heap)
    IN  [p.block EXCEPT !.hash = p.computed_hash]

\* The walk stopping one block early: range(1, len(self.chain) - 1).
IsChainValidSkipsTip(c, d, heap) ==
    \A i \in 2..(Len(c) - 1) :
        LET current == c[i]
            prev == c[i - 1]
        IN  /\ current.previous_hash = prev.hash
            /\ StartsWithZeros(ComputeHash(current, heap).hex, d)
            /\ ComputeHash(current, heap) = current.hash

\* is_chain_valid
IsChainValid(c, d, heap) ==
    \A i \in 2..Len(c) :
        LET current == c[i]
            prev == c[i - 1]
        IN  /\ current.previous_hash = prev.hash
            /\ StartsWithZeros(ComputeHash(current, heap).hex, d)
            /\ ComputeHash(current, heap) = current.hash

\* set_block without its last test, the stored hash left unchecked.
SetBlockResultNoHashCheck(c, block, d, heap) ==
    IF block.previous_hash # LastBlock(c).hash THEN FALSE
    ELSE IF ~StartsWithZeros(ComputeHash(block, heap).hex, d) THEN FALSE
    ELSE TRUE

\* set_block(block): the three tests in the order of lines 86, 90 and 93.
SetBlockResult(c, block, d, heap) ==
    IF block.previous_hash # LastBlock(c).hash THEN FALSE
    ELSE IF ~StartsWithZeros(ComputeHash(block, heap).hex, d) THEN FALSE
    ELSE IF ComputeHash(block, heap) # block.hash THEN FALSE
    ELSE TRUE

\* get_block with the test `0 < index`.
GetBlockResultSkipsGenesis(c, index) ==
    IF 0 < index /\ index < Len(c) THEN <<ToDict(c[index + 1])>> ELSE <<>>

\* get_block(index): <<>> models None.
GetBlockResult(c, index) ==
    IF 0 <= index /\ index < Len(c) THEN <<ToDict(c[index + 1])>> ELSE <<>>

\* explore_blocks
ExploreBlocksResult(c) == [i \in 1..Len(c) |-> ToDict(c[i])]

NoTamper == [field |-> "none", at |-> 0, was |-> <<>>]

\* A thread that is running no request.
Idle == [pc |-> "idle", arg |-> <<>>, blk |-> <<>>]

\* ------------------------------------------------------------------- Init
\* CentralBlockchain.__init__(difficulty): empty chain and queue, then
\* create_genesis_block.
Init ==
    \E d \in 0..MaxDifficulty, now \in TimeStamps :
        LET heap == << <<>>, <<GenesisPayload>> >>
            genesis == NewBlock(0, 2, SentinelHash, now, heap)
        IN  /\ difficulty = d
            /\ lists = heap
            /\ pending = 1
            /\ chain = <<Sealed(genesis, d, heap)>>
            /\ ret = [op |-> "init", val |-> <<>>]
            /\ log = <<>>
            /\ tampered = NoTamper
            /\ thr = [t \in Threads |-> Idle]

\* ---------------------------------------------------------------- actions
\* add_transaction(transaction)
AddTransaction(p) ==
    /\ Len(log) < MaxAdds
    /\ lists' = [lists EXCEPT ![pending] = Append(@, p)]
    /\ ret' = [op |-> "add_transaction", val |-> <<Len(chain) + 1>>]
    /\ log' = Append(log, p)
    /\ UNCHANGED <<chain, pending, difficulty, tampered, thr>>

\* mine_block without its early return.
NothingToMineNever(heap, ref) == FALSE

\* `if not self.unconfirmed_transactions` (line 66): the queue is empty.
NothingToMine(heap, ref) == heap[ref] = <<>>

\* A copy that takes the first pending payload only.
PendingSnapshotFirstOnly(heap, ref) == SubSeq(heap[ref], 1, 1)

\* list(self.unconfirmed_transactions) (line 71): the content of the copy.
PendingSnapshot(heap, ref) == heap[ref]

\* A candidate numbered like add_transaction's hint, len(chain) + 1.
CandidateIndexOffByOne(c, copy, now, heap) ==
    NewBlock(Len(c) + 1, copy, LastBlock(c).hash, now, heap)

\* A candidate linked like genesis, previous_hash="0".
CandidateSentinelLink(c, copy, now, heap) ==
    NewBlock(LastBlock(c).index + 1, copy, SentinelHash, now, heap)

\* The candidate mine_block constructs (lines 69-73).
Candidate(c, copy, now, heap) ==
    NewBlock(LastBlock(c).index + 1, copy, LastBlock(c).hash, now, heap)

\* self.chain[-1] = new_block, in place of the append.
AppendBlockOverwritesTip(c, b) == [c EXCEPT ![Len(c)] = b]

\* self.chain.append(new_block)
AppendBlock(c, b) == Append(c, b)

\* mine_block(): the copy of the queue and the fresh empty queue are new
\* list objects.
MineBlock ==
    IF NothingToMine(lists, pending)
    THEN /\ ret' = [op |-> "mine_block", val |-> <<>>]
         /\ UNCHANGED <<chain, lists, pending, difficulty, log, tampered, thr>>
    ELSE /\ Len(chain) < MaxChain
         /\ \E now \in TimeStamps :
              LET copy == Len(lists) + 1
                  fresh == Len(lists) + 2
                  heap == lists \o << PendingSnapshot(lists, pending), <<>> >>
                  new_block == Sealed(Candidate(chain, copy, now, heap), difficulty, heap)
              IN  /\ chain' = AppendBlock(chain, new_block)
                  /\ lists' = heap
                  /\ pending' = fresh
                  /\ ret' = [op |-> "mine_block", val |-> <<new_block.index>>]
         /\ UNCHANGED <<difficulty, log, tampered, thr>>

\* get_block(index)
GetBlock(index) ==
    /\ ret' = [op |-> "get_block", arg |-> index, val |-> GetBlockResult(chain, index)]
    /\ UNCHANGED <<chain, lists, pending, difficulty, log, tampered, thr>>

\* explore_blocks()
ExploreBlocks ==
    /\ ret' = [op |-> "explore_blocks", val |-> ExploreBlocksResult(chain)]
    /\ UNCHANGED <<chain, lists, pending, difficulty, log, tampered, thr>>

\* is_chain_valid()
CheckValidity ==
    /\ ret' = [op |-> "is_chain_valid", val |-> <<IsChainValid(chain, difficulty, lists)>>]
    /\ UNCHANGED <<chain, lists, pending, difficulty, log, tampered, thr>>

\* The ledger's two mutating methods, called one at a time.
Next ==
    \/ \E p \in Payloads : AddTransaction(p)
    \/ MineBlock

Spec == Init /\ [][Next]_vars

\* The mutating methods and the read-only ones, called one at a time.
NextReads ==
    \/ \E p \in Payloads : AddTransaction(p)
    \/ MineBlock
    \/ \E index \in -1..Len(chain) : GetBlock(index)
    \/ ExploreBlocks
    \/ CheckValidity

SpecReads == Init /\ [][NextReads]_vars

\* ------------------------------------------------------------------ routes
\* `if block:` on what get_block returned: None is false, a dict is true
\* unless it has no key.
BlockTruthy(block) == block # <<>> /\ DOMAIN block[1] # {}

\* The /get_block/<int:index> route (lines 138-143): the status code, and
\* the block when there is one.  The int converter admits no negative index.
GetBlockRoute(index) ==
    /\ LET block == GetBlockResult(chain, index)
       IN  ret' = [op |-> "get_block_route", arg |-> index,
                   val |-> IF BlockTruthy(block) THEN <<200>> \o block ELSE <<404>>]
    /\ UNCHANGED <<chain, lists, pending, difficulty, log, tampered, thr>>

\* The mutating methods, get_block and its route, called one at a time.
NextLookup ==
    \/ \E p \in Payloads : AddTransaction(p)
    \/ MineBlock
    \/ \E index \in -1..Len(chain) : GetBlock(index)
    \/ \E index \in 0..Len(chain) : GetBlockRoute(index)

SpecLookup == Init /\ [][NextLookup]_vars

\* What a POST /add_transaction may carry as its JSON body: null, or an
\* object without a "data" key, or an object whose "data" is one value.
RouteValues == {PEmptyStr, PZero, PStr, PStrKey}
Bodies ==
    {[kind |-> "null", data |-> <<>>]}
      \cup {[kind |-> "object", data |-> d] : d \in {<<>>} \cup {<<v>> : v \in RouteValues}}

\* Python truth value of a payload: '' and 0 are false.
Truthy(v) == v \notin {PEmptyStr, PZero}

\* `request.json or {}` then `.get("data", "")` (lines 147-148).
TransactionData(body) ==
    LET payload == IF body.kind = "null" THEN <<>> ELSE body.data
    IN  IF payload = <<>> THEN PEmptyStr ELSE payload[1]

\* The /add_transaction route (lines 145-154): 400 when the data is false,
\* else add_transaction(data) and 201.
AddTransactionRoute(body) ==
    LET transaction_data == TransactionData(body)
    IN  IF ~Truthy(transaction_data)
        THEN /\ ret' = [op |-> "add_transaction_route", arg |-> body, val |-> <<400>>]
             /\ UNCHANGED <<chain, lists, pending, difficulty, log, tampered, thr>>
        ELSE /\ Len(log) < MaxAdds
             /\ lists' = [lists EXCEPT ![pending] = Append(@, transaction_data)]
             /\ log' = Append(log, transaction_data)
             /\ ret' = [op |-> "add_transaction_route", arg |-> body, val |-> <<201>>]
             /\ UNCHANGED <<chain, pending, difficulty, tampered, thr>>

\* Submissions through the route, and sealing, one request at a time.
NextSubmit ==
    \/ \E body \in Bodies : AddTransactionRoute(body)
    \/ MineBlock

SpecSubmit == Init /\ [][NextSubmit]_vars

\* ------------------------------------------------------------ direct calls
\* Block(index, transactions, previous_hash, nonce=nonce): the constructor
\* with an explicit nonce; the hash is computed with it.
BlockWithNonce(index, transactions, previous_hash, now, nonce, heap) ==
    LET b == [NewBlock(index, transactions, previous_hash, now, heap)
                 EXCEPT !.nonce = nonce]
    IN  [b EXCEPT !.hash = ComputeHash(b, heap)]

\* The nonces a caller constructs a block with.
EntryNonces == 0..HexBase

\* proof_of_work(block) on a block the caller built over the pending list
\* and the tip: what the block was on entry, what it is on return, and the
\* digest returned.
CallProofOfWork(now, nonce) ==
    /\ LET block == BlockWithNonce(LastBlock(chain).index + 1, pending,
                                   LastBlock(chain).hash, now, nonce, lists)
           p == ProofOfWork(block, difficulty, lists)
       IN  ret' = [op |-> "proof_of_work", arg |-> block,
                   val |-> <<p.block, p.computed_hash>>]
    /\ UNCHANGED <<chain, lists, pending, difficulty, log, tampered, thr>>

\* Submissions, and proof_of_work called on blocks over the pending list.
NextPow ==
    \/ \E p \in Payloads : AddTransaction(p)
    \/ \E now \in TimeStamps, nonce \in EntryNonces : CallProofOfWork(now, nonce)

SpecPow == Init /\ [][NextPow]_vars

\* The blocks a caller hands to set_block, all built over the pending list
\* with timestamp 1: a sealed successor of the tip; the same linked to "0"
\* or carrying the constructor's hash; unsealed successors of the tip.
SetBlockInputs ==
    LET index == LastBlock(chain).index + 1
        successor == NewBlock(index, pending, LastBlock(chain).hash, 1, lists)
    IN  {Sealed(successor, difficulty, lists),
         Sealed(NewBlock(index, pending, SentinelHash, 1, lists), difficulty, lists),
         ProofOfWork(successor, difficulty, lists).block}
          \cup {BlockWithNonce(index, pending, LastBlock(chain).hash, 1, n, lists) :
                   n \in {0, 1}}

\* set_block(block): the block on entry, the boolean returned and the block
\* on return.
SetBlock(block) ==
    /\ ret' = [op |-> "set_block", arg |-> block,
               val |-> <<SetBlockResult(chain, block, difficulty, lists), block>>]
    /\ UNCHANGED <<chain, lists, pending, difficulty, log, tampered, thr>>

\* One caller submitting and sealing, and checking blocks against the tip.
NextSetBlock ==
    \/ AddTransaction(PStr)
    \/ MineBlock
    \/ \E block \in SetBlockInputs : SetBlock(block)

SpecSetBlock == Init /\ [][NextSetBlock]_vars

\* --------------------------------------------------------------- tampering
\* The lists a direct write may store in a block: empty or one payload.
TamperLists == {<<>>} \cup {<<p>> : p \in StoredPayloads}

\* block.transactions = txs on chain[index], a value different from the one
\* stored (Python list inequality); block.hash is left as it is.
TamperTransactions(index, txs) ==
    /\ tampered = NoTamper
    /\ txs # lists[chain[index + 1].transactions]
    /\ lists' = Append(lists, txs)
    /\ chain' = [chain EXCEPT ![index + 1].transactions = Len(lists) + 1]
    /\ tampered' = [field |-> "transactions", at |-> index,
                    was |-> lists[chain[index + 1].transactions]]
    /\ ret' = [op |-> "tamper", val |-> <<>>]
    /\ UNCHANGED <<pending, difficulty, log, thr>>

\* The digests present in the ledger, and the string "0".
KnownHashes == {chain[i].hash : i \in 1..Len(chain)} \cup {SentinelHash}

\* block.previous_hash = h on the non-genesis block chain[index], h not the
\* stored hash of the block before it.
TamperPreviousHash(index, h) ==
    /\ tampered = NoTamper
    /\ index >= 1
    /\ h # chain[index].hash
    /\ chain' = [chain EXCEPT ![index + 1].previous_hash = h]
    /\ tampered' = [field |-> "previous_hash", at |-> index, was |-> <<>>]
    /\ ret' = [op |-> "tamper", val |-> <<>>]
    /\ UNCHANGED <<lists, pending, difficulty, log, thr>>

\* A chain built by sealing, then one direct write, then validity checks.
NextTamper ==
    \/ tampered = NoTamper /\ \E p \in Payloads : AddTransaction(p)
    \/ tampered = NoTamper /\ MineBlock
    \/ \E index \in 0..(Len(chain) - 1), txs \in TamperLists : TamperTransactions(index, txs)
    \/ \E index \in 1..(Len(chain) - 1), h \in KnownHashes : TamperPreviousHash(index, h)
    \/ CheckValidity

SpecTamper == Init /\ [][NextTamper]_vars

\* --------------------------------------------------------------- snapshots
\* The caller holds the dicts get_block or explore_blocks returned.
HoldsSnapshot == ret.op \in {"get_block", "explore_blocks"} /\ ret.val # <<>>

\* snapshot["transactions"].append(p): an in-place write to the list object
\* the returned dict refers to.
MutateSnapshotList(k, p) ==
    /\ HoldsSnapshot
    /\ k \in 1..Len(ret.val)
    /\ tampered = NoTamper
    /\ lists' = [lists EXCEPT ![ret.val[k].transactions] = Append(@, p)]
    /\ ret' = [op |-> "snapshot_mutated", val |-> ret.val]
    /\ tampered' = [field |-> "snapshot.transactions", at |-> ret.val[k].index,
                    was |-> lists[ret.val[k].transactions]]
    /\ UNCHANGED <<chain, pending, difficulty, log, thr>>

\* snapshot["nonce"] = snapshot["nonce"] + 1: a write to the returned dict.
MutateSnapshotField(k) ==
    /\ HoldsSnapshot
    /\ k \in 1..Len(ret.val)
    /\ tampered = NoTamper
    /\ ret' = [op |-> "snapshot_mutated",
               val |-> [ret.val EXCEPT ![k].nonce = @ + 1]]
    /\ tampered' = [field |-> "snapshot.nonce", at |-> ret.val[k].index, was |-> <<>>]
    /\ UNCHANGED <<chain, lists, pending, difficulty, log, thr>>

\* The ledger's methods, and a caller that writes to what they returned.
NextSnapshot ==
    \/ \E p \in Payloads : AddTransaction(p)
    \/ MineBlock
    \/ \E index \in -1..Len(chain) : GetBlock(index)
    \/ ExploreBlocks
    \/ CheckValidity
    \/ \E k \in 1..MaxChain, p \in Payloads : MutateSnapshotList(k, p)
    \/ \E k \in 1..MaxChain : MutateSnapshotField(k)

SpecSnapshot == Init /\ [][NextSnapshot]_vars

\* ------------------------------------------------------------- concurrency
\* The server runs each request in a thread of its own and the ledger takes
\* no lock: a thread may be preempted between any two statements.  A pc
\* names the source line the thread executes next.
AddPcs == {"a62", "a63"}
MinePcs == {"m70", "m71", "m72", "m76", "m80", "m81", "m82"}
InFlight(pcs) == Cardinality({t \in Threads : thr[t].pc \in pcs})
AllIdle == \A t \in Threads : thr[t].pc = "idle"

\* add_transaction, line 62: self.unconfirmed_transactions is loaded.
AddLoad(t, p) ==
    /\ thr[t].pc = "idle"
    /\ Len(log) + InFlight(AddPcs) < MaxAdds
    /\ thr' = [thr EXCEPT ![t] = [pc |-> "a62", arg |-> <<p, pending>>, blk |-> <<>>]]
    /\ UNCHANGED <<chain, lists, pending, difficulty, ret, log, tampered>>

\* add_transaction, line 62: .append(transaction) on the list loaded.
AddAppend(t) ==
    /\ thr[t].pc = "a62"
    /\ lists' = [lists EXCEPT ![thr[t].arg[2]] = Append(@, thr[t].arg[1])]
    /\ thr' = [thr EXCEPT ![t].pc = "a63"]
    /\ UNCHANGED <<chain, pending, difficulty, ret, log, tampered>>

\* add_transaction, line 63: the call returns and the payload is acknowledged.
AddReturn(t) ==
    /\ thr[t].pc = "a63"
    /\ ret' = [op |-> "add_transaction", val |-> <<Len(chain) + 1>>]
    /\ log' = Append(log, thr[t].arg[1])
    /\ thr' = [thr EXCEPT ![t] = Idle]
    /\ UNCHANGED <<chain, lists, pending, difficulty, tampered>>

\* mine_block, lines 66-67: the empty-queue test and the early return.
MineTest(t) ==
    /\ thr[t].pc = "idle"
    /\ IF NothingToMine(lists, pending)
       THEN /\ ret' = [op |-> "mine_block", val |-> <<>>]
            /\ UNCHANGED thr
       ELSE /\ Len(chain) + InFlight(MinePcs) < MaxChain
            /\ thr' = [thr EXCEPT ![t].pc = "m70"]
            /\ UNCHANGED ret
    /\ UNCHANGED <<chain, lists, pending, difficulty, log, tampered>>

\* mine_block, line 70: index=self.last_block.index + 1.
MineIndex(t) ==
    /\ thr[t].pc = "m70"
    /\ thr' = [thr EXCEPT ![t] = [pc |-> "m71", arg |-> <<LastBlock(chain).index + 1>>,
                                  blk |-> <<>>]]
    /\ UNCHANGED <<chain, lists, pending, difficulty, ret, log, tampered>>

\* mine_block, line 71: transactions=list(self.unconfirmed_transactions).
MineCopy(t) ==
    /\ thr[t].pc = "m71"
    /\ lists' = Append(lists, PendingSnapshot(lists, pending))
    /\ thr' = [thr EXCEPT ![t] = [pc |-> "m72", arg |-> <<thr[t].arg[1], Len(lists) + 1>>,
                                  blk |-> <<>>]]
    /\ UNCHANGED <<chain, pending, difficulty, ret, log, tampered>>

\* mine_block, lines 72-73: previous_hash=self.last_block.hash and Block(...).
MineConstruct(t) ==
    /\ thr[t].pc = "m72"
    /\ \E now \in TimeStamps :
         thr' = [thr EXCEPT ![t] =
                    [pc |-> "m76", arg |-> <<>>,
                     blk |-> <<NewBlock(thr[t].arg[1], thr[t].arg[2],
                                        LastBlock(chain).hash, now, lists)>>]]
    /\ UNCHANGED <<chain, lists, pending, difficulty, ret, log, tampered>>

\* mine_block, lines 76-77: the search, on the thread's own candidate.
MineProve(t) ==
    /\ thr[t].pc = "m76"
    /\ thr' = [thr EXCEPT ![t] = [pc |-> "m80", arg |-> <<>>,
                                  blk |-> <<Sealed(thr[t].blk[1], difficulty, lists)>>]]
    /\ UNCHANGED <<chain, lists, pending, difficulty, ret, log, tampered>>

\* mine_block, line 80: self.chain.append(new_block).
MineAppend(t) ==
    /\ thr[t].pc = "m80"
    /\ chain' = AppendBlock(chain, thr[t].blk[1])
    /\ thr' = [thr EXCEPT ![t].pc = "m81"]
    /\ UNCHANGED <<lists, pending, difficulty, ret, log, tampered>>

\* mine_block, line 81: self.unconfirmed_transactions = [].
MineClear(t) ==
    /\ thr[t].pc = "m81"
    /\ lists' = Append(lists, <<>>)
    /\ pending' = Len(lists) + 1
    /\ thr' = [thr EXCEPT ![t].pc = "m82"]
    /\ UNCHANGED <<chain, difficulty, ret, log, tampered>>

\* mine_block, line 82: return new_block.index.
MineReturn(t) ==
    /\ thr[t].pc = "m82"
    /\ ret' = [op |-> "mine_block", val |-> <<thr[t].blk[1].index>>]
    /\ thr' = [thr EXCEPT ![t] = Idle]
    /\ UNCHANGED <<chain, lists, pending, difficulty, log, tampered>>

\* Requests served concurrently, a statement at a time.
NextThreads ==
    \E t \in Threads :
        \/ \E p \in Payloads : AddLoad(t, p)
        \/ AddAppend(t)
        \/ AddReturn(t)
        \/ MineTest(t)
        \/ MineIndex(t)
        \/ MineCopy(t)
        \/ MineConstruct(t)
        \/ MineProve(t)
        \/ MineAppend(t)
        \/ MineClear(t)
        \/ MineReturn(t)

SpecThreads == Init /\ [][NextThreads]_vars

\* ------------------------------------------------------------------ status
\* The /status route builds its answer field by field (lines 173-177), each
\* a separate read of the shared ledger.
StatusPcs == {"s175", "s176", "s177"}

\* status, line 173: len(blockchain.chain).
StatusLength(t) ==
    /\ thr[t].pc = "idle"
    /\ thr' = [thr EXCEPT ![t] = [pc |-> "s175", arg |-> <<Len(chain)>>, blk |-> <<>>]]
    /\ UNCHANGED <<chain, lists, pending, difficulty, ret, log, tampered>>

\* status, line 175: blockchain.last_block.hash (the chain is never empty).
StatusLatestHash(t) ==
    /\ thr[t].pc = "s175"
    /\ thr' = [thr EXCEPT ![t] = [pc |-> "s176",
                                  arg |-> <<thr[t].arg[1], LastBlock(chain).hash>>,
                                  blk |-> <<>>]]
    /\ UNCHANGED <<chain, lists, pending, difficulty, ret, log, tampered>>

\* status, line 176: len(blockchain.unconfirmed_transactions).
StatusPendingCount(t) ==
    /\ thr[t].pc = "s176"
    /\ thr' = [thr EXCEPT ![t] = [pc |-> "s177",
                                  arg |-> <<thr[t].arg[1], thr[t].arg[2],
                                            Len(lists[pending])>>,
                                  blk |-> <<>>]]
    /\ UNCHANGED <<chain, lists, pending, difficulty, ret, log, tampered>>

\* status, lines 177-178: blockchain.is_chain_valid() and the response.
StatusReturn(t) ==
    /\ thr[t].pc = "s177"
    /\ ret' = [op |-> "status",
               val |-> <<[length |-> thr[t].arg[1],
                          difficulty |-> difficulty,
                          latest_hash |-> thr[t].arg[2],
                          unconfirmed_transactions_count |-> thr[t].arg[3],
                          is_chain_valid |-> IsChainValid(chain, difficulty, lists)]>>]
    /\ thr' = [thr EXCEPT ![t] = Idle]
    /\ UNCHANGED <<chain, lists, pending, difficulty, log, tampered>>

\* Thread 1 serves add_transaction and mine_block requests, thread 2 serves
\* status requests, a statement at a time.
NextStatus ==
    \/ \E p \in Payloads : AddLoad(1, p)
    \/ AddAppend(1)
    \/ AddReturn(1)
    \/ MineTest(1)
    \/ MineIndex(1)
    \/ MineCopy(1)
    \/ MineConstruct(1)
    \/ MineProve(1)
    \/ MineAppend(1)
    \/ MineClear(1)
    \/ MineReturn(1)
    \/ StatusLength(2)
    \/ StatusLatestHash(2)
    \/ StatusPendingCount(2)
    \/ StatusReturn(2)

SpecStatus == Init /\ [][NextStatus]_vars

\* ------------------------------------------------------- the search by steps
\* One caller (thread 1) submitting and sealing, the proof-of-work loop
\* taken one iteration at a time.  thr[1].blk is the candidate, thr[1].arg
\* the number of `block.nonce += 1` executed so far.

\* An increment that skips a nonce.
NextNonceSkipsOne(n) == n + 2

\* `block.nonce += 1` (line 57)
NextNonce(n) == n + 1

\* Nonces beyond this are not explored; a digest with the prefix occurs below it.
NonceCap == Modulus

\* `computed_hash.startswith(prefix)` for the candidate at hand (lines 54-56).
PrefixFound(block) == StartsWithZeros(ComputeHash(block, lists).hex, difficulty)

SealAdd(p) == thr[1].pc = "idle" /\ AddTransaction(p)

\* mine_block lines 66-76 and proof_of_work lines 53-55: the early return,
\* or the candidate with nonce 0 at the loop's test.
SealBegin ==
    /\ thr[1].pc = "idle"
    /\ IF NothingToMine(lists, pending)
       THEN /\ ret' = [op |-> "mine_block", val |-> <<>>]
            /\ UNCHANGED <<lists, thr>>
       ELSE /\ Len(chain) < MaxChain
            /\ \E now \in TimeStamps :
                 LET heap == Append(lists, PendingSnapshot(lists, pending))
                     block == Candidate(chain, Len(lists) + 1, now, heap)
                 IN  /\ lists' = heap
                     /\ thr' = [thr EXCEPT ![1] =
                                  [pc |-> "p56", arg |-> <<0>>,
                                   blk |-> <<[block EXCEPT !.nonce = PowStartNonce(block)]>>]]
            /\ UNCHANGED ret
    /\ UNCHANGED <<chain, pending, difficulty, log, tampered>>

\* proof_of_work lines 56-58: the test fails, the nonce is incremented.
PowStep ==
    /\ thr[1].pc = "p56"
    /\ ~PrefixFound(thr[1].blk[1])
    /\ thr[1].blk[1].nonce < NonceCap
    /\ thr' = [thr EXCEPT ![1].arg = <<@[1] + 1>>,
                          ![1].blk = <<[@[1] EXCEPT !.nonce = NextNonce(@)]>>]
    /\ UNCHANGED <<chain, lists, pending, difficulty, ret, log, tampered>>

\* proof_of_work lines 56 and 59, mine_block lines 77-82: the test holds,
\* the digest becomes the hash, the block is appended, the queue replaced.
SealFinish ==
    /\ thr[1].pc = "p56"
    /\ PrefixFound(thr[1].blk[1])
    /\ LET new_block == [thr[1].blk[1] EXCEPT
                            !.hash = ComputeHash(thr[1].blk[1], lists)]
       IN  /\ chain' = AppendBlock(chain, new_block)
           /\ ret' = [op |-> "mine_block", val |-> <<new_block.index>>]
    /\ lists' = Append(lists, <<>>)
    /\ pending' = Len(lists) + 1
    /\ thr' = [thr EXCEPT ![1] = Idle]
    /\ UNCHANGED <<difficulty, log, tampered>>

NextSeal ==
    \/ SealAdd(PStr)
    \/ SealBegin
    \/ PowStep
    \/ SealFinish

\* A call that has started keeps running: the loop and the return are
\* taken whenever they can be.
SpecSeal == Init /\ [][NextSeal]_vars /\ WF_vars(PowStep) /\ WF_vars(SealFinish)

\* ------------------------------------------------------------ properties
\* The last operation was a mine_block that sealed a block.
MineSucceeded == ret.op = "mine_block" /\ ret.val # <<>>

\* The chain with every block's transactions list read from the heap.
ChainView(c, heap) ==
    [i \in 1..Len(c) |-> [c[i] EXCEPT !.transactions = heap[c[i].transactions]]]

RECURSIVE SealedCount(_, _)
\* How many payloads the non-genesis blocks of c hold.
SealedCount(c, heap) ==
    IF Len(c) <= 1 THEN 0
    ELSE SealedCount(SubSeq(c, 1, Len(c) - 1), heap) + Len(heap[LastBlock(c).transactions])

IsPrefix(s, t) == Len(s) <= Len(t) /\ SubSeq(t, 1, Len(s)) = s

\* C1: after construction and any sequence of add_transaction and mine_block
\* calls run one at a time, is_chain_valid returns true.
C1_ChainValid == IsChainValid(chain, difficulty, lists)

C1_Witness == Len(chain) >= 3 /\ MineSucceeded /\ difficulty > 0 /\ chain[3].nonce > 0

\* C2: every block of the chain, genesis included, stores the digest that
\* compute_hash gives for its current fields, and that digest starts with at
\* least `difficulty` zero characters, for each difficulty.
C2_HashFreshAndHard ==
    \A i \in 1..Len(chain) :
        /\ chain[i].hash = ComputeHash(chain[i], lists)
        /\ StartsWithZeros(ComputeHash(chain[i], lists).hex, difficulty)

C2_Witness ==
    /\ difficulty = MaxDifficulty
    /\ Len(chain) >= 2
    /\ chain[1].nonce > 0
    /\ chain[2].nonce > 0

\* C3: each block after genesis names the hash of the block before it, and
\* each block's index is its position in the chain.
C3_LinkedAndNumbered ==
    /\ \A i \in 2..Len(chain) : chain[i].previous_hash = chain[i - 1].hash
    /\ \A i \in 1..Len(chain) : chain[i].index = i - 1

C3_Witness == Len(chain) >= 3 /\ chain[3].previous_hash = chain[2].hash

\* C4: right after a successful mine_block the new block holds exactly the
\* payloads acknowledged since the previous successful seal, in submission
\* order, and the pending queue is empty.
C4_SealsExactlyPending ==
    MineSucceeded =>
        /\ lists[LastBlock(chain).transactions]
             = SubSeq(log, SealedCount(SubSeq(chain, 1, Len(chain) - 1), lists) + 1, Len(log))
        /\ lists[pending] = <<>>

C4_Witness ==
    /\ MineSucceeded
    /\ Len(chain) >= 3
    /\ Len(lists[chain[3].transactions]) >= 2
    /\ lists[chain[3].transactions][1] # lists[chain[3].transactions][2]

\* is_chain_valid has just returned on a ledger whose block `tampered.at` had
\* the attribute `field` overwritten.
CheckedAfterTamper(field) == tampered.field = field /\ ret.op = "is_chain_valid"

\* C5 as claimed: overwriting the transactions of any block, genesis
\* included, with a different value makes is_chain_valid return false.
C5_AnyBlockAnyValue ==
    CheckedAfterTamper("transactions") => ret.val = <<FALSE>>

\* C5: overwriting the transactions of a non-genesis block with a value
\* whose JSON text differs from the stored one's, the hash left as it is,
\* makes is_chain_valid return false.
C5_TamperedTransactionsDetected ==
    (/\ CheckedAfterTamper("transactions")
     /\ tampered.at >= 1
     /\ DumpsList(lists[chain[tampered.at + 1].transactions]) # DumpsList(tampered.was))
        => ret.val = <<FALSE>>

C5_Witness ==
    /\ CheckedAfterTamper("transactions")
    /\ tampered.at = 1
    /\ Len(chain) = 3
    /\ DumpsList(lists[chain[2].transactions]) # DumpsList(tampered.was)
    /\ ret.val = <<FALSE>>

\* C6: overwriting the previous_hash of a non-genesis block with a value
\* other than the stored hash of the block before it makes is_chain_valid
\* return false.
C6_TamperedLinkDetected ==
    CheckedAfterTamper("previous_hash") => ret.val = <<FALSE>>

C6_Witness ==
    /\ CheckedAfterTamper("previous_hash")
    /\ tampered.at = Len(chain) - 1
    /\ Len(chain) = 3
    /\ chain[3].previous_hash # chain[2].hash
    /\ ret.val = <<FALSE>>

\* C7: mine_block called with an empty pending queue returns None and leaves
\* the chain and the pending queue as they were.
C7_EmptyMineIsNoOp ==
    [][(lists[pending] = <<>> /\ ret'.op = "mine_block") =>
          /\ ret'.val = <<>>
          /\ chain' = chain
          /\ pending' = pending
          /\ lists' = lists]_vars

C7_Witness ==
    /\ ret.op = "mine_block"
    /\ ret.val = <<>>
    /\ Len(chain) >= 2
    /\ lists[pending] = <<>>

\* C8: a write to a snapshot get_block or explore_blocks returned, its
\* transactions list included, leaves every field of every block of the
\* chain as it was.
C8_SnapshotIsIndependent ==
    [][ret'.op = "snapshot_mutated" =>
          ChainView(chain', lists') = ChainView(chain, lists)]_vars

\* How often payload p occurs in the sequence txs.
Count(txs, p) == Cardinality({i \in 1..Len(txs) : txs[i] = p})

RECURSIVE CountSealed(_, _, _)
\* How often payload p occurs in the non-genesis blocks of c.
CountSealed(c, heap, p) ==
    IF Len(c) <= 1 THEN 0
    ELSE CountSealed(SubSeq(c, 1, Len(c) - 1), heap, p)
           + Count(heap[LastBlock(c).transactions], p)

\* C10: with add_transaction and mine_block interleaved statement by
\* statement, once every call has returned each acknowledged payload is in
\* the pending queue or in exactly one sealed block: none lost, none twice.
C10_NoLossNoDuplicate ==
    AllIdle =>
        \A p \in Payloads :
            Count(log, p) = Count(lists[pending], p) + CountSealed(chain, lists, p)

\* C9: the chain is append-only: each step keeps the chain, with the content
\* of every block's transactions, as a prefix of the next chain; the chain
\* grows only in a successful mine_block, and then by exactly one block.
C9_AppendOnly ==
    [][/\ IsPrefix(ChainView(chain, lists), ChainView(chain', lists'))
       /\ (Len(chain') # Len(chain) => ret'.op = "mine_block" /\ ret'.val # <<>>)
       /\ ((ret'.op = "mine_block" /\ ret'.val # <<>>) => Len(chain') = Len(chain) + 1)]_vars

C9_Witness ==
    /\ Len(chain) >= 3
    /\ ret.op = "add_transaction"
    /\ lists[pending] # <<>>

\* The payloads appended to a pending queue so far, acknowledged or about
\* to be.
Submitted == Len(log) + InFlight({"a63"})

\* C11: a read-only request running beside mine_block never observes the
\* ledger mid-mutation: the status it returns never counts a payload both in
\* the blocks it saw (length) and in the pending queue it saw
\* (unconfirmed_transactions_count).
C11_StatusNeverMidMutation ==
    ret.op = "status" =>
        SealedCount(SubSeq(chain, 1, ret.val[1].length), lists)
          + ret.val[1].unconfirmed_transactions_count <= Submitted

\* C12: construction leaves exactly one block: index 0, previous_hash "0",
\* the sentinel transactions, sealed by proof_of_work; afterwards the chain
\* is never empty, genesis stays as constructed, and no other block has
\* previous_hash "0".
C12_GenesisOnceAndOnly ==
    /\ Len(chain) >= 1
    /\ (ret.op = "init" => Len(chain) = 1)
    /\ lists[chain[1].transactions] = <<GenesisPayload>>
    /\ chain[1] = Sealed(NewBlock(0, chain[1].transactions, SentinelHash,
                                  chain[1].timestamp, lists), difficulty, lists)
    /\ \A i \in 2..Len(chain) : chain[i].previous_hash # SentinelHash

C12_Witness ==
    /\ Len(chain) >= 3
    /\ chain[1].nonce > 0
    /\ chain[1].previous_hash = SentinelHash
    /\ chain[3].previous_hash # SentinelHash

\* C13: when mine_block is the call right after add_transaction, the index
\* of the block it seals (its return value) is the value add_transaction
\* returned.
C13_HintIsSealedIndex ==
    [][(ret.op = "add_transaction" /\ ret'.op = "mine_block" /\ ret'.val # <<>>)
          => ret'.val = ret.val]_vars

\* C14: get_block(index) returns the snapshot of chain[index] exactly when
\* 0 <= index < len(chain) and None otherwise; the route answers 200 with
\* the block for every index in range, 0 included, and 404 otherwise; and
\* neither changes the ledger.
C14_LookupByIndex ==
    [][ret'.op \in {"get_block", "get_block_route"} =>
          /\ chain' = chain /\ lists' = lists /\ pending' = pending
          /\ LET i == ret'.arg
                 inRange == 0 <= i /\ i < Len(chain)
             IN  IF ret'.op = "get_block"
                 THEN ret'.val = IF inRange THEN <<ToDict(chain[i + 1])>> ELSE <<>>
                 ELSE ret'.val = IF inRange THEN <<200, ToDict(chain[i + 1])>>
                                 ELSE <<404>>]_vars

C14_Witness ==
    /\ ret.op = "get_block_route"
    /\ ret.arg = 0
    /\ Len(chain) = 2
    /\ ret.val = <<200, ToDict(chain[1])>>

\* C15: a submit request whose `data` is absent or empty is rejected (400)
\* and changes neither the queue nor the chain; any other request appends
\* exactly its payload, once, at the end of the queue and leaves the chain.
C15_SubmitRejectsOnlyAbsentOrEmpty ==
    [][ret'.op = "add_transaction_route" =>
          LET body == ret'.arg
              absentOrEmpty == body.kind = "null" \/ body.data = <<>>
                                 \/ body.data = <<PEmptyStr>>
          IN  /\ chain' = chain
              /\ pending' = pending
              /\ IF absentOrEmpty
                 THEN ret'.val = <<400>> /\ lists' = lists
                 ELSE /\ ret'.val = <<201>>
                      /\ lists' = [lists EXCEPT ![pending] = Append(@, body.data[1])]]_vars

\* C16: with two mine_block calls interleaved, no two blocks of the chain
\* share an index or a previous_hash, and once both calls have finished
\* is_chain_valid returns true.
C16_ConcurrentMinesStayConsistent ==
    /\ \A i, j \in 1..Len(chain) :
          i # j => /\ chain[i].index # chain[j].index
                   /\ chain[i].previous_hash # chain[j].previous_hash
    /\ (AllIdle => IsChainValid(chain, difficulty, lists))

\* C17: whatever nonce the block has on entry, proof_of_work leaves it with
\* the smallest nonce n >= 0 whose digest has `difficulty` leading zeros,
\* changes nothing else of the block, returns the digest at that n, and a
\* second run on the result gives the same nonce and digest.
C17_PowFirstHitFromZero ==
    ret.op = "proof_of_work" =>
        LET entry == ret.arg
            out == ret.val[1]
            digest == ret.val[2]
        IN  /\ out = [entry EXCEPT !.nonce = out.nonce]
            /\ out.nonce >= 0
            /\ StartsWithZeros(ComputeHash(out, lists).hex, difficulty)
            /\ \A n \in 0..(out.nonce - 1) :
                  ~StartsWithZeros(ComputeHash([entry EXCEPT !.nonce = n], lists).hex,
                                   difficulty)
            /\ digest = ComputeHash(out, lists)
            /\ ProofOfWork(out, difficulty, lists)
                  = [block |-> out, computed_hash |-> digest]

\* C17 witness: a search entered with a nonce beyond the first hit, which
\* is itself not 0.
C17_Witness ==
    /\ ret.op = "proof_of_work"
    /\ difficulty > 0
    /\ ret.val[1].nonce > 0
    /\ ret.arg.nonce > ret.val[1].nonce
    /\ lists[pending] # <<>>

\* The three tests of a block against the tip, each on its own.
LinksToTip(block) == block.previous_hash = LastBlock(chain).hash
MeetsDifficulty(block) == StartsWithZeros(ComputeHash(block, lists).hex, difficulty)
HashIsFresh(block) == ComputeHash(block, lists) = block.hash

\* C18: set_block returns true exactly when the block links to the tip, its
\* recomputed digest meets the difficulty and equals its stored hash; the
\* call changes neither the chain, the lists, the queue nor the block.
C18_SetBlockChecksOnly ==
    [][ret'.op = "set_block" =>
          /\ ret'.val[1] = (/\ LinksToTip(ret'.arg)
                            /\ MeetsDifficulty(ret'.arg)
                            /\ HashIsFresh(ret'.arg))
          /\ ret'.val[2] = ret'.arg
          /\ chain' = chain /\ lists' = lists /\ pending' = pending]_vars

\* C18 witness: on a chain with sealed blocks, a block that fails the last
\* test only is refused.
C18_Witness ==
    /\ ret.op = "set_block"
    /\ Len(chain) >= 2
    /\ lists[pending] # <<>>
    /\ LinksToTip(ret.arg) /\ MeetsDifficulty(ret.arg) /\ ~HashIsFresh(ret.arg)
    /\ ret.val[1] = FALSE

\* C20: every block after genesis holds at least one transaction, and the
\* blocks after genesis are never more than the add_transaction calls made.
C20_NoEmptyBlockNoSurplus ==
    /\ \A i \in 2..Len(chain) : lists[chain[i].transactions] # <<>>
    /\ Len(chain) - 1 <= Len(log)

\* C20 witness: as many sealed blocks as submissions, one payload each.
C20_Witness ==
    /\ Len(chain) = 3
    /\ Len(log) = 2
    /\ ret.op = "mine_block"
    /\ \A i \in 2..3 : Len(lists[chain[i].transactions]) = 1

\* A seal of block k is in its search.
Searching(k) == thr[1].pc = "p56" /\ thr[1].blk[1].index = k

\* Some nonce gives the candidate at hand a digest with the prefix.
Solvable ==
    \E n \in 0..(NonceCap - 1) : PrefixFound([thr[1].blk[1] EXCEPT !.nonce = n])

\* The seal of block k has returned: the block is the tip, the queue empty.
Completed(k) ==
    /\ thr[1].pc = "idle"
    /\ ret = [op |-> "mine_block", val |-> <<k>>]
    /\ LastBlock(chain).index = k
    /\ lists[pending] = <<>>

\* C19: a seal that has a nonce to find eventually appends its block and
\* clears the queue; while it searches, the nonce is the number of
\* increments made (0, 1, 2, ...) and either another increment or the
\* completion is possible (no failure outcome); at difficulty 0 it completes
\* with nonce 0 and no increment.
C19_SealEventuallyCompletes ==
    /\ \A k \in 1..MaxChain : (Searching(k) /\ Solvable) ~> Completed(k)
    /\ [](thr[1].pc = "p56" =>
            /\ thr[1].blk[1].nonce = thr[1].arg[1]
            /\ PrefixFound(thr[1].blk[1]) \/ thr[1].blk[1].nonce < NonceCap
            /\ (difficulty = 0 => thr[1].arg[1] = 0 /\ PrefixFound(thr[1].blk[1])))
    /\ [][thr[1].pc = "p56" /\ thr'[1].pc = "idle" =>
            /\ chain' = Append(chain, LastBlock(chain'))
            /\ LastBlock(chain').nonce = thr[1].blk[1].nonce
            /\ lists'[pending'] = <<>>]_vars

\* C19 witness: a seal at the highest difficulty, completed after at least
\* two increments.
C19_Witness ==
    /\ Completed(1)
    /\ difficulty = MaxDifficulty
    /\ LastBlock(chain).nonce >= 2

====
